---- MODULE Spec2Model ----
(***************************************************************************)
(* pgls: a command-line inspector that lists the databases of a PostgreSQL *)
(* server, their tables and their columns as a tree (src/pgls/__init__.py).*)
(*                                                                         *)
(* Three specifications share the module:                                  *)
(*   Spec        the run of main(): fetch_and_display_all pulling the      *)
(*               asynchronous generator fetch_databases, which calls       *)
(*               fetch_tables and fetch_fields, one await at a time;       *)
(*   SpecHuman   Size.human and Count.human applied to bounded inputs;     *)
(*   SpecFields  fetch_fields applied to bounded column rows and keys.     *)
(***************************************************************************)
EXTENDS Integers, Sequences, FiniteSets, TLC

VARIABLES
    show_tables,    \* fetch_databases' parameter (tables == "show")
    show_fields,    \* fetch_databases' parameter (fields == "show")
    sort,           \* the --sort option
    pc,             \* position of the single flow of control
    open,           \* connections connected and not yet closed, by target database
    net,            \* history: the network calls made so far, in order
    data,           \* fetch_databases: rows of the database list
    i,              \* fetch_databases: index in data of the row of the loop
    tables,         \* fetch_databases: the local variable `tables`
    tdata,          \* fetch_tables: rows of the table list (its local `data`)
    fields_data,    \* fetch_tables: rows of the column list
    current,        \* the Database handed to the consumer by `yield`
    yielded,        \* history: the Databases yielded so far
    fetched,        \* history: per database, what fetch_tables returned for it
    failures,       \* history: the exceptions raised so far
    out,            \* standard output: the lines printed so far
    hin,            \* SpecHuman: the input
    hout,           \* SpecHuman: the string returned
    fin,            \* SpecFields: the arguments of fetch_fields
    fout            \* SpecFields: the list returned

runVars == <<show_tables, show_fields, sort, pc, open, net, data, i, tables, tdata,
             fields_data, current, yielded, fetched, failures, out>>
humanVars == <<hin, hout>>
fieldVars == <<fin, fout>>
vars == <<runVars, humanVars, fieldVars>>

(***************************************************************************)
(* Bounds.                                                                 *)
(***************************************************************************)
MaxDbs == 3         \* longest database list the server returns
Spread == 2         \* inputs of human() lie within Spread of a threshold or a tie
MaxRows == 3        \* longest column list given to fetch_fields

(***************************************************************************)
(* Optional[str]: None is the empty sequence, a string s is <<s>>.         *)
(***************************************************************************)
None == <<>>
Some(s) == <<s>>

RECURSIVE ConcatAll(_)
ConcatAll(ss) == IF ss = <<>> THEN <<>> ELSE Head(ss) \o ConcatAll(Tail(ss))

(***************************************************************************)
(* Unit formatter.  Python integers are unbounded and a byte count reaches *)
(* 1024 ** 4, beyond the integers of the model checker, so a byte count n  *)
(* is carried as two limbs: n = hi * Limb + lo with 0 <= lo < Limb.  A row *)
(* count stays below 2^31 and is a plain integer.                          *)
(***************************************************************************)
Limb == 1024 * 1024

Bytes(hi, lo) == [hi |-> hi, lo |-> lo]

\* self.bytes >= 1024 ** power
BytesGE(b, power) ==
    CASE power = 4 -> b.hi >= Limb
      [] power = 3 -> b.hi >= 1024
      [] power = 2 -> b.hi >= 1
      [] power = 1 -> b.hi >= 1 \/ b.lo >= 1024
      [] OTHER     -> TRUE

\* int(x): the quotient alone.
RoundTrunc(q, cmp) == q

\* round(x) of Python 3 for x = q + r/d, 0 <= r < d, where cmp is the sign of
\* 2r - d: to the nearest integer, a tie to the even one.
Round(q, cmp) ==
    IF cmp < 0 THEN q
    ELSE IF cmp > 0 THEN q + 1
    ELSE IF q % 2 = 0 THEN q ELSE q + 1

\* round(self.bytes / 1024 ** power).  For the divisions of human() the float
\* quotient is exact (a power of two divides a count below 2^53).
RoundBytes(b, power) ==
    IF power = 0 THEN b.hi * Limb + b.lo
    ELSE IF power = 1
    THEN LET n == b.hi * Limb + b.lo
             r == n % 1024
         IN  Round(n \div 1024, 2 * r - 1024)
    ELSE LET hd == IF power = 2 THEN 1 ELSE IF power = 3 THEN 1024 ELSE Limb
             q  == b.hi \div hd
             rh == b.hi % hd        \* the remainder is rh * Limb + b.lo
             \* sign of 2 * (rh * Limb + lo) - hd * Limb
             x   == 2 * rh + ((2 * b.lo) \div Limb) - hd
             rem == (2 * b.lo) % Limb
             cmp == IF x < 0 THEN -1 ELSE IF x > 0 \/ rem > 0 THEN 1 ELSE 0
         IN  Round(q, cmp)

Size(bytes) == [bytes |-> bytes]

Size_human(self) ==
    LET power == IF BytesGE(self.bytes, 4) THEN 4
                 ELSE IF BytesGE(self.bytes, 3) THEN 3
                 ELSE IF BytesGE(self.bytes, 2) THEN 2
                 ELSE IF BytesGE(self.bytes, 1) THEN 1
                 ELSE 0
        suffix == CASE power = 4 -> "TiB"
                    [] power = 3 -> "GiB"
                    [] power = 2 -> "MiB"
                    [] power = 1 -> "KiB"
                    [] OTHER     -> "bytes"
        value == RoundBytes(self.bytes, power)
    IN  ToString(value) \o " " \o suffix

Count(count) == [count |-> count]

\* round(self.count / 1000 ** power)
RoundCount(n, power) ==
    LET d == 1000 ^ power
        r == n % d
    IN  Round(n \div d, 2 * r - d)

Count_human(self) ==
    LET power == IF self.count >= 1000 ^ 3 THEN 3
                 ELSE IF self.count >= 1000 ^ 2 THEN 2
                 ELSE IF self.count >= 1000 ^ 1 THEN 1
                 ELSE 0
        suffix == CASE power = 3 -> "kkk rows"
                    [] power = 2 -> "kk rows"
                    [] power = 1 -> "k rows"
                    [] OTHER     -> " rows"
        value == RoundCount(self.count, power)
    IN  ToString(value) \o suffix

(***************************************************************************)
(* Records of the tree and their display.  stdout is a sequence of lines; a *)
(* line keeps its indentation, its kind, the part printed in the colour of *)
(* the kind (name) and the rest of the text.                               *)
(***************************************************************************)
Line(ident, kind, name, rest) ==
    [ident |-> ident, kind |-> kind, name |-> name, rest |-> rest]

Field(name, description, type, default, nullable) ==
    [name |-> name, description |-> description, type |-> type,
     default |-> default, nullable |-> nullable]

Field_display(self, ident) ==
    LET nullable == IF self.nullable THEN " (nullable)" ELSE ""
    IN  <<Line(ident, "field", self.name, " | " \o self.type \o nullable)>>

Table(schema, name, description, size, rows, fields) ==
    [schema |-> schema, name |-> name, description |-> description,
     size |-> size, rows |-> rows, fields |-> fields]

Table_display(self, ident) ==
    <<Line(ident, "table", self.schema \o "." \o self.name,
           " (" \o Size_human(self.size) \o ", " \o Count_human(self.rows)
               \o ") (table)")>>
    \o (IF self.description # None /\ self.description # Some("")
        THEN <<Line(ident + 1, "description", "", self.description[1]),
               Line(0, "blank", "", "")>>
        ELSE <<>>)
    \o ConcatAll([k \in 1..Len(self.fields) |->
                      Field_display(self.fields[k], ident + 1)])

Database(name, description, owner, size, tbls) ==
    [name |-> name, description |-> description, owner |-> owner,
     size |-> size, tables |-> tbls]

Database_display(self, ident) ==
    <<Line(ident, "database", self.name,
           " (" \o Size_human(self.size) \o ") (database)")>>
    \o (IF self.description # None /\ self.description # Some("")
        THEN <<Line(ident + 1, "description", "", self.description[1]),
               Line(0, "blank", "", "")>>
        ELSE <<>>)
    \o ConcatAll([k \in 1..Len(self.tables) |->
                      Table_display(self.tables[k], ident + 1)])

(***************************************************************************)
(* fetch_fields: the rows of the key, in order, each made a Field.         *)
(***************************************************************************)
\* The filter comparing the table name alone.
fetch_fields_TableOnly(prefetched_fields, schema_name, table_name) ==
    LET rows == SelectSeq(prefetched_fields,
                          LAMBDA row : row.table_name = table_name)
    IN  [k \in 1..Len(rows) |->
            Field(rows[k].name, None, rows[k].type, rows[k].default,
                  rows[k].nullable)]

fetch_fields(prefetched_fields, schema_name, table_name) ==
    LET rows == SelectSeq(prefetched_fields,
                          LAMBDA row : /\ row.schema_name = schema_name
                                       /\ row.table_name = table_name)
    IN  [k \in 1..Len(rows) |->
            Field(rows[k].name, None, rows[k].type, rows[k].default,
                  rows[k].nullable)]

\* fetch_tables, lines 260-271: a table row with no column dropped.
BuildTables_SkipFieldless(rows, columns) ==
    LET kept == SelectSeq(rows, LAMBDA row :
                    fetch_fields(columns, row.schema, row.name) # <<>>)
    IN  [k \in 1..Len(kept) |->
            Table(kept[k].schema, kept[k].name, kept[k].description,
                  Size(kept[k].size), Count(kept[k].rows),
                  fetch_fields(columns, kept[k].schema, kept[k].name))]

\* fetch_tables, lines 260-271: one Table per table row, in order.
BuildTables(rows, columns) ==
    [k \in 1..Len(rows) |->
        Table(rows[k].schema, rows[k].name, rows[k].description,
              Size(rows[k].size), Count(rows[k].rows),
              fetch_fields(columns, rows[k].schema, rows[k].name))]

(***************************************************************************)
(* The server: what the three catalog queries return.  The database list   *)
(* holds any set of up to MaxDbs databases, in the order of the ORDER BY   *)
(* clause that `sort` selects; database names are unique on a server.      *)
(***************************************************************************)
DbNames == {"a", "b", "c", "d"}

DatabaseRow(name) ==
    CASE name = "a" -> [name |-> "a", owner |-> "alice",
                        description |-> Some("main"), size |-> Bytes(8, 0)]
      [] name = "b" -> [name |-> "b", owner |-> "bob",
                        description |-> None, size |-> Bytes(1536, 0)]
      [] name = "c" -> [name |-> "c", owner |-> "alice",
                        description |-> None, size |-> Bytes(0, 7680)]
      [] OTHER      -> [name |-> "d", owner |-> "bob",
                        description |-> Some(""), size |-> Bytes(Limb, 0)]

\* order by db.datname / order by pg_database_size(db.datname) desc
DatabaseOrder(by) ==
    IF by = "name" THEN <<"a", "b", "c", "d">> ELSE <<"d", "b", "a", "c">>

DatabaseRows(present, by) ==
    LET names == SelectSeq(DatabaseOrder(by), LAMBDA n : n \in present)
    IN  [k \in 1..Len(names) |-> DatabaseRow(names[k])]

TableRow(schema, name, description, size, rows) ==
    [schema |-> schema, name |-> name, description |-> description,
     size |-> size, rows |-> rows]

\* order by schemaname, tablename / order by pg_table_size(...) desc
TableRows(db, by) ==
    LET big   == TableRow("public", "t", Some("accounts"), Bytes(3, 0), 2500000)
        small == TableRow("Public", "t", None, Bytes(0, 8192), 1500)
    IN  CASE db = "a" -> IF by = "name" THEN <<small, big>> ELSE <<big, small>>
          [] db = "b" -> <<TableRow("public", "u", None, Bytes(0, 0), 0)>>
          [] db = "d" -> <<TableRow("public", "w", Some(""), Bytes(1024, 0), 999500)>>
          [] OTHER    -> <<>>

ColumnRow(schema_name, table_name, name, type, default, nullable) ==
    [schema_name |-> schema_name, table_name |-> table_name, name |-> name,
     type |-> type, default |-> default, nullable |-> nullable]

\* information_schema.columns of the database, order by ordinal_position
ColumnRows(db) ==
    LET sys == ColumnRow("pg_catalog", "pg_class", "oid", "oid", None, FALSE)
    IN  CASE db = "a" ->
               <<ColumnRow("public", "t", "id", "integer", Some("0"), FALSE),
                 ColumnRow("Public", "t", "key", "text", None, FALSE),
                 sys,
                 ColumnRow("public", "t", "email", "text", None, TRUE)>>
          [] db = "b" ->
               <<sys, ColumnRow("public", "u", "v", "integer", None, TRUE)>>
          [] OTHER -> <<sys>>

(***************************************************************************)
(* The run.  asyncpg.connect and connection.fetch either return or raise;  *)
(* InsufficientPrivilegeError is the server's SQLSTATE 42501, OSError      *)
(* stands for every other failure.                                         *)
(***************************************************************************)
Exceptions == {"InsufficientPrivilegeError", "OSError"}
Outcomes == {"ok"} \cup Exceptions

Call(op, db, result) == [op |-> op, db |-> db, result |-> result]
Failure(exc, op, db) == [exc |-> exc, op |-> op, db |-> db]

Unbound == [bound |-> FALSE, val |-> <<>>]
Bound(v) == [bound |-> TRUE, val |-> v]

\* The options as click hands them over: --sort is one of its two choices, so
\* the NotImplementedError branches of lines 170 and 219 are never taken.
InitRun ==
    /\ show_tables \in BOOLEAN
    /\ show_fields \in BOOLEAN
    /\ sort \in {"name", "size"}
    /\ pc = "start"
    /\ open = {}
    /\ net = <<>>
    /\ data = <<>>
    /\ i = 0
    /\ tables = Unbound
    /\ tdata = <<>>
    /\ fields_data = <<>>
    /\ current = <<>>
    /\ yielded = <<>>
    /\ fetched = [d \in DbNames |-> <<>>]
    /\ failures = <<>>
    /\ out = <<>>

\* An exception that nothing catches: asyncio.run re-raises it and the
\* process ends with a traceback.
Abort(exc, op, db) ==
    /\ failures' = Append(failures, Failure(exc, op, db))
    /\ pc' = "failed"

\* connection = await asyncpg.connect(f"{base_dsn}/postgres")
ConnectCatalog ==
    /\ pc = "start"
    /\ \E r \in Outcomes :
        /\ net' = Append(net, Call("connect", "postgres", r))
        /\ IF r = "ok"
           THEN /\ open' = open \cup {"postgres"}
                /\ pc' = "fetch_databases"
                /\ UNCHANGED failures
           ELSE /\ Abort(r, "connect", "postgres")
                /\ UNCHANGED open
    /\ UNCHANGED <<humanVars, fieldVars>>
    /\ UNCHANGED <<show_tables, show_fields, sort, data, i, tables, tdata,
                   fields_data, current, yielded, fetched, out>>

\* data = await connection.fetch(...)
FetchDatabaseRows ==
    /\ pc = "fetch_databases"
    /\ \E r \in Outcomes :
        /\ net' = Append(net, Call("databases", "postgres", r))
        /\ IF r = "ok"
           THEN /\ \E present \in SUBSET DbNames :
                     /\ Cardinality(present) <= MaxDbs
                     /\ data' = DatabaseRows(present, sort)
                /\ pc' = "loop"
                /\ UNCHANGED failures
           ELSE /\ Abort(r, "databases", "postgres")
                /\ UNCHANGED data
    /\ UNCHANGED <<humanVars, fieldVars>>
    /\ UNCHANGED <<show_tables, show_fields, sort, open, i, tables, tdata,
                   fields_data, current, yielded, fetched, out>>

\* The loop taking the branch of show_tables whatever the option.
NextRow_AlwaysFetch ==
    /\ pc = "loop"
    /\ IF i < Len(data)
       THEN i' = i + 1 /\ pc' = "connect"
       ELSE pc' = "close" /\ UNCHANGED i
    /\ UNCHANGED <<humanVars, fieldVars>>
    /\ UNCHANGED <<show_tables, show_fields, sort, open, net, data, tables,
                   tdata, fields_data, current, yielded, fetched, failures, out>>

\* for row in data: if show_tables: ... else: tables = []
NextRow ==
    /\ pc = "loop"
    /\ IF i < Len(data)
       THEN /\ i' = i + 1
            /\ IF show_tables
               THEN pc' = "connect" /\ UNCHANGED tables
               ELSE pc' = "yield" /\ tables' = Bound(<<>>)
       ELSE /\ pc' = "close"
            /\ UNCHANGED <<i, tables>>
    /\ UNCHANGED <<humanVars, fieldVars>>
    /\ UNCHANGED <<show_tables, show_fields, sort, open, net, data, tdata,
                   fields_data, current, yielded, fetched, failures, out>>

\* except asyncpg.exceptions.InsufficientPrivilegeError
CaughtAny(exc) == TRUE

Caught(exc) == exc = "InsufficientPrivilegeError"

\* An exception raised inside fetch_tables leaves it at once; the try of
\* fetch_databases catches it (pass) or lets it go.
RaiseInFetchTables(exc, op) ==
    /\ failures' = Append(failures, Failure(exc, op, data[i].name))
    /\ pc' = IF Caught(exc) THEN "yield" ELSE "failed"
    /\ tdata' = <<>>
    /\ fields_data' = <<>>

\* fetch_tables: connection = await asyncpg.connect(f"{base_dsn}/{database_name}")
ConnectDatabase ==
    /\ pc = "connect"
    /\ \E r \in Outcomes :
        /\ net' = Append(net, Call("connect", data[i].name, r))
        /\ IF r = "ok"
           THEN /\ open' = open \cup {data[i].name}
                /\ pc' = "fetch_tables"
                /\ UNCHANGED <<failures, tdata, fields_data>>
           ELSE /\ RaiseInFetchTables(r, "connect")
                /\ UNCHANGED open
    /\ UNCHANGED <<humanVars, fieldVars>>
    /\ UNCHANGED <<show_tables, show_fields, sort, data, i, tables, current,
                   yielded, fetched, out>>

\* fetch_tables: data = await connection.fetch(...); if show_fields: ... else:
\* fields_data = []
FetchTableRows ==
    /\ pc = "fetch_tables"
    /\ \E r \in Outcomes :
        /\ net' = Append(net, Call("tables", data[i].name, r))
        /\ IF r = "ok"
           THEN /\ tdata' = TableRows(data[i].name, sort)
                /\ fields_data' = <<>>
                /\ pc' = IF show_fields THEN "fetch_columns" ELSE "build"
                /\ UNCHANGED failures
           ELSE RaiseInFetchTables(r, "tables")
    /\ UNCHANGED <<humanVars, fieldVars>>
    /\ UNCHANGED <<show_tables, show_fields, sort, open, data, i, tables,
                   current, yielded, fetched, out>>

\* fetch_tables: fields_data = await connection.fetch(...)
FetchColumnRows ==
    /\ pc = "fetch_columns"
    /\ \E r \in Outcomes :
        /\ net' = Append(net, Call("columns", data[i].name, r))
        /\ IF r = "ok"
           THEN /\ fields_data' = ColumnRows(data[i].name)
                /\ pc' = "build"
                /\ UNCHANGED <<failures, tdata>>
           ELSE RaiseInFetchTables(r, "columns")
    /\ UNCHANGED <<humanVars, fieldVars>>
    /\ UNCHANGED <<show_tables, show_fields, sort, open, data, i, tables,
                   current, yielded, fetched, out>>

\* fetch_tables returning with its connection left open.
ReturnTables_NoClose ==
    /\ pc = "build"
    /\ LET result == BuildTables(tdata, fields_data)
       IN  /\ tables' = Bound(result)
           /\ fetched' = [fetched EXCEPT ![data[i].name] = result]
    /\ tdata' = <<>>
    /\ fields_data' = <<>>
    /\ pc' = "yield"
    /\ UNCHANGED <<humanVars, fieldVars>>
    /\ UNCHANGED <<show_tables, show_fields, sort, open, net, data, i, current,
                   yielded, failures, out>>

\* fetch_tables: the loop over data, await connection.close(), return tables;
\* fetch_databases: tables = await fetch_tables(...)
ReturnTables ==
    /\ pc = "build"
    /\ LET result == BuildTables(tdata, fields_data)
       IN  /\ tables' = Bound(result)
           /\ fetched' = [fetched EXCEPT ![data[i].name] = result]
    /\ net' = Append(net, Call("close", data[i].name, "ok"))
    /\ open' = open \ {data[i].name}
    /\ tdata' = <<>>
    /\ fields_data' = <<>>
    /\ pc' = "yield"
    /\ UNCHANGED <<humanVars, fieldVars>>
    /\ UNCHANGED <<show_tables, show_fields, sort, data, i, current, yielded,
                   failures, out>>

\* yield Database(name=..., tables=tables): reading `tables` before any
\* assignment raises UnboundLocalError.
YieldDatabase ==
    /\ pc = "yield"
    /\ IF tables.bound
       THEN LET database == Database(data[i].name, data[i].description,
                                     data[i].owner, Size(data[i].size),
                                     tables.val)
            IN  /\ current' = <<database>>
                /\ yielded' = Append(yielded, database)
                /\ pc' = "display"
                /\ UNCHANGED failures
       ELSE /\ Abort("UnboundLocalError", "yield", data[i].name)
            /\ UNCHANGED <<current, yielded>>
    /\ UNCHANGED <<humanVars, fieldVars>>
    /\ UNCHANGED <<show_tables, show_fields, sort, open, net, data, i, tables,
                   tdata, fields_data, fetched, out>>

\* The consumer collecting the databases instead of printing each at once.
DisplayDatabase_Deferred ==
    /\ pc = "display"
    /\ pc' = "loop"
    /\ UNCHANGED <<humanVars, fieldVars>>
    /\ UNCHANGED <<show_tables, show_fields, sort, open, net, data, i, tables,
                   tdata, fields_data, current, yielded, fetched, failures, out>>

\* fetch_and_display_all: database.display(), then the generator is resumed
DisplayDatabase ==
    /\ pc = "display"
    /\ out' = out \o Database_display(current[1], 0)
    /\ pc' = "loop"
    /\ UNCHANGED <<humanVars, fieldVars>>
    /\ UNCHANGED <<show_tables, show_fields, sort, open, net, data, i, tables,
                   tdata, fields_data, current, yielded, fetched, failures>>

\* await connection.close(), after the loop
CloseCatalog ==
    /\ pc = "close"
    /\ net' = Append(net, Call("close", "postgres", "ok"))
    /\ open' = open \ {"postgres"}
    /\ pc' = "done"
    /\ UNCHANGED <<humanVars, fieldVars>>
    /\ UNCHANGED <<show_tables, show_fields, sort, data, i, tables, tdata,
                   fields_data, current, yielded, fetched, failures, out>>

Next ==
    \/ ConnectCatalog
    \/ FetchDatabaseRows
    \/ NextRow
    \/ ConnectDatabase
    \/ FetchTableRows
    \/ FetchColumnRows
    \/ ReturnTables
    \/ YieldDatabase
    \/ DisplayDatabase
    \/ CloseCatalog

(***************************************************************************)
(* SpecHuman: Size.human and Count.human on inputs around the thresholds   *)
(* and the ties of every unit.                                             *)
(***************************************************************************)
\* b + d for a small integer d, the limbs carried or borrowed
BytesPlus(b, d) ==
    LET lo == b.lo + d
    IN  IF lo < 0 THEN Bytes(b.hi - 1, lo + Limb)
        ELSE IF lo >= Limb THEN Bytes(b.hi + 1, lo - Limb)
        ELSE Bytes(b.hi, lo)

SizePoints ==
    {Bytes(0, 0), Bytes(0, 512), Bytes(0, 1024), Bytes(0, 1536), Bytes(0, 2560),
     Bytes(0, Limb - 512), Bytes(1, 0), Bytes(1, Limb \div 2), Bytes(2, Limb \div 2),
     Bytes(1023, Limb \div 2), Bytes(1024, 0), Bytes(1536, 0), Bytes(2560, 0),
     Bytes(Limb - 1, Limb \div 2), Bytes(Limb, 0), Bytes(Limb + Limb \div 2, 0),
     Bytes(2 * Limb + Limb \div 2, 0), Bytes(1500 * Limb, 0)}

SizeInputs ==
    {BytesPlus(b, d) : b \in SizePoints, d \in (-Spread)..Spread}
        \ {BytesPlus(Bytes(0, 0), d) : d \in (-Spread)..(-1)}

CountPoints ==
    {0, 500, 1000, 1500, 2500, 999500, 1000000, 1500000, 2500000, 999500000,
     1000000000, 1500000000, 2000000000}

CountInputs == {n + d : n \in CountPoints, d \in (-Spread)..Spread} \cap Nat

InitHuman ==
    /\ hin \in [kind : {"size"}, bytes : SizeInputs, count : {0}]
                \cup [kind : {"count"}, bytes : {Bytes(0, 0)}, count : CountInputs]
    /\ hout = None

FormatSize ==
    /\ hin.kind = "size"
    /\ hout = None
    /\ hout' = Some(Size_human(Size(hin.bytes)))
    /\ UNCHANGED <<hin, runVars, fieldVars>>

FormatCount ==
    /\ hin.kind = "count"
    /\ hout = None
    /\ hout' = Some(Count_human(Count(hin.count)))
    /\ UNCHANGED <<hin, runVars, fieldVars>>

NextHuman ==
    \/ FormatSize
    \/ FormatCount

(***************************************************************************)
(* SpecFields: fetch_fields on every list of up to MaxRows column rows and *)
(* every key.                                                              *)
(***************************************************************************)
KeySchemas == {"public", "Public"}
KeyTables == {"t", "u"}

ColumnRowInputs ==
    {ColumnRow(s, t, n, IF n = "id" THEN "integer" ELSE "text",
               IF n = "id" THEN Some("0") ELSE None, n # "id") :
        s \in KeySchemas, t \in KeyTables, n \in {"id", "key"}}

RowLists == UNION {[1..n -> ColumnRowInputs] : n \in 0..MaxRows}

InitFields ==
    /\ fin \in [rows : RowLists, schema_name : KeySchemas, table_name : KeyTables]
    /\ fout = None

FetchFields ==
    /\ fout = None
    /\ fout' = Some(fetch_fields(fin.rows, fin.schema_name, fin.table_name))
    /\ UNCHANGED <<fin, runVars, humanVars>>

NextFields == FetchFields

(***************************************************************************)
(* Specifications.                                                         *)
(***************************************************************************)
IdleRun ==
    /\ InitRun
    /\ show_tables /\ show_fields /\ sort = "name"

IdleHuman == hin = [kind |-> "size", bytes |-> Bytes(0, 0), count |-> 0] /\ hout = None

IdleFields ==
    /\ fin = [rows |-> <<>>, schema_name |-> "public", table_name |-> "t"]
    /\ fout = None

Init == InitRun /\ IdleHuman /\ IdleFields
Spec == Init /\ [][Next]_vars

HumanInit == IdleRun /\ InitHuman /\ IdleFields
SpecHuman == HumanInit /\ [][NextHuman]_vars

FieldsInit == IdleRun /\ IdleHuman /\ InitFields
SpecFields == FieldsInit /\ [][NextFields]_vars

(***************************************************************************)
(* Reading standard output back: the database lines, and under each the    *)
(* lines printed before the next database line.                            *)
(***************************************************************************)
DatabasePositions ==
    SelectSeq([p \in 1..Len(out) |-> p], LAMBDA p : out[p].kind = "database")

PrintedNames == {out[p].name : p \in {q \in 1..Len(out) : out[q].kind = "database"}}

BlockEnd(k) ==
    IF k < Len(DatabasePositions) THEN DatabasePositions[k + 1] - 1 ELSE Len(out)

\* The names on the lines of a kind under the k-th database printed.
NamesUnder(k, kind) ==
    LET block == SubSeq(out, DatabasePositions[k] + 1, BlockEnd(k))
        lines == SelectSeq(block, LAMBDA l : l.kind = kind)
    IN  [j \in 1..Len(lines) |-> lines[j].name]

TableLabels(ts) == [j \in 1..Len(ts) |-> ts[j].schema \o "." \o ts[j].name]

FieldNames(ts) ==
    ConcatAll([j \in 1..Len(ts) |->
                  [m \in 1..Len(ts[j].fields) |-> ts[j].fields[m].name]])

FailureSet == {failures[k] : k \in 1..Len(failures)}
CallSet == {net[k] : k \in 1..Len(net)}
InFetchTables == pc \in {"fetch_tables", "fetch_columns", "build"}

(***************************************************************************)
(* C1.  A database whose table listing raises InsufficientPrivilegeError   *)
(* is still rendered, with no table, and the run goes on to the databases  *)
(* after it, whatever its place in the list, the first included.           *)
(***************************************************************************)
C1_DeniedDatabaseRendersEmpty ==
    \A f \in FailureSet :
        (f.exc = "InsufficientPrivilegeError" /\ f.op = "tables") =>
            /\ ~\E g \in FailureSet : g.exc = "UnboundLocalError" /\ g.db = f.db
            /\ \A k \in 1..Len(yielded) :
                   yielded[k].name = f.db => yielded[k].tables = <<>>
            /\ pc = "done" => f.db \in PrintedNames

(***************************************************************************)
(* C2.  The tables rendered under a database are exactly the tables        *)
(* fetched for it, once each and in the order fetched, and never a table   *)
(* fetched for another database.                                           *)
(***************************************************************************)
C2_RenderedTablesAreOwn ==
    \A k \in 1..Len(DatabasePositions) :
        NamesUnder(k, "table")
            = TableLabels(fetched[out[DatabasePositions[k]].name])

(***************************************************************************)
(* C3.  Every connection opened is closed by the end of the run, also when *)
(* a query on it fails and when a permission error is swallowed: at the    *)
(* end no connection is open, and a connection to a database is open only  *)
(* while fetch_tables is at work on that database.                         *)
(***************************************************************************)
C3_EveryConnectionClosed ==
    /\ pc \in {"done", "failed"} => open = {}
    /\ \A c \in open \ {"postgres"} : InFetchTables /\ c = data[i].name

(***************************************************************************)
(* C4.  Fetching and rendering interleave one database at a time: while    *)
(* anything is fetched for the i-th database of the list, and when the run *)
(* has failed, the whole subtree of every database yielded before has been *)
(* printed already.                                                        *)
(***************************************************************************)
SubtreePrinted(k) ==
    /\ k <= Len(DatabasePositions)
    /\ out[DatabasePositions[k]].name = yielded[k].name
    /\ NamesUnder(k, "table") = TableLabels(yielded[k].tables)
    /\ NamesUnder(k, "field") = FieldNames(yielded[k].tables)

C4_PrintedBeforeNextFetch ==
    /\ (pc = "connect" \/ InFetchTables) =>
           /\ Len(yielded) = i - 1
           /\ \A k \in 1..(i - 1) : yielded[k].name = data[k].name
    /\ pc # "display" =>
           /\ Len(DatabasePositions) = Len(yielded)
           /\ \A k \in 1..Len(yielded) : SubtreePrinted(k)
    /\ pc = "display" => Len(DatabasePositions) = Len(yielded) - 1

C4_Witness ==
    /\ pc = "failed"
    /\ i = 2
    /\ Failure("OSError", "tables", data[2].name) \in FailureSet
    /\ Len(yielded) = 1 /\ yielded[1].tables # <<>>
    /\ SubtreePrinted(1)

(***************************************************************************)
(* C5, as claimed.  Only InsufficientPrivilegeError raised by the table    *)
(* listing is recovered: every other failure of a connect or of a query    *)
(* aborts the run, the failing database and those after it not rendered.   *)
(***************************************************************************)
\* The k-th failure ended the run, and nothing was printed for the database
\* of the loop or for a later one.
Aborted(k) ==
    /\ pc = "failed"
    /\ k = Len(failures)
    /\ PrintedNames \subseteq {data[j].name : j \in 1..(i - 1)}

C5_OnlyTableListingRecovered ==
    \A k \in 1..Len(failures) :
        ~(failures[k].exc = "InsufficientPrivilegeError" /\ failures[k].op = "tables")
            => Aborted(k)

(***************************************************************************)
(* C5, amended.  The failure recovered is InsufficientPrivilegeError       *)
(* raised anywhere inside fetch_tables: by the connect to the database, by *)
(* the table listing or by the column listing.  Every other failure        *)
(* aborts the run, the failing database and those after it not rendered.   *)
(***************************************************************************)
C5_OnlyPrivilegeErrorOfFetchTablesRecovered ==
    \A k \in 1..Len(failures) :
        ~(/\ failures[k].exc = "InsufficientPrivilegeError"
          /\ failures[k].op \in {"connect", "tables", "columns"}
          /\ failures[k].db # "postgres")
            => Aborted(k)

C5_Witness ==
    /\ pc = "failed"
    /\ i = 2
    /\ failures = <<Failure("OSError", "columns", data[2].name)>>
    /\ PrintedNames = {data[1].name}
    /\ Len(data) = 3

(***************************************************************************)
(* C6.  With hide-tables no connection to a database is opened, no table   *)
(* or column query is issued, and every database is yielded and printed    *)
(* with no table under it.                                                 *)
(***************************************************************************)
C6_HideTables ==
    ~show_tables =>
        /\ \A c \in CallSet : c.db = "postgres"
        /\ \A c \in CallSet : c.op \notin {"tables", "columns"}
        /\ \A k \in 1..Len(yielded) : yielded[k].tables = <<>>
        /\ \A l \in {out[p] : p \in 1..Len(out)} : l.kind \notin {"table", "field"}
        /\ pc = "done" =>
               [k \in 1..Len(DatabasePositions) |-> out[DatabasePositions[k]].name]
                   = [k \in 1..Len(data) |-> data[k].name]

C6_Witness ==
    /\ ~show_tables
    /\ pc = "done"
    /\ Len(data) = 3
    /\ Len(DatabasePositions) = 3

(***************************************************************************)
(* C7.  With hide-fields (tables shown) the column query is never issued   *)
(* and every Table has no field, while the list of tables is the one of    *)
(* the table rows, as it is with fields shown.                             *)
(***************************************************************************)
\* The tables built are the table rows, one for one and in order.
TablesOfRows(ts, rows) ==
    /\ Len(ts) = Len(rows)
    /\ \A k \in 1..Len(rows) :
           /\ ts[k].schema = rows[k].schema
           /\ ts[k].name = rows[k].name
           /\ ts[k].description = rows[k].description
           /\ ts[k].size.bytes = rows[k].size
           /\ ts[k].rows.count = rows[k].rows

C7_HideFields ==
    show_tables =>
        /\ \A d \in DbNames :
               Call("close", d, "ok") \in CallSet =>
                   TablesOfRows(fetched[d], TableRows(d, sort))
        /\ ~show_fields =>
               /\ \A c \in CallSet : c.op # "columns"
               /\ \A d \in DbNames : \A k \in 1..Len(fetched[d]) :
                      fetched[d][k].fields = <<>>
               /\ \A k \in 1..Len(yielded) : \A j \in 1..Len(yielded[k].tables) :
                      yielded[k].tables[j].fields = <<>>
               /\ \A l \in {out[p] : p \in 1..Len(out)} : l.kind # "field"

C7_Witness ==
    /\ show_tables /\ ~show_fields
    /\ pc = "done"
    /\ failures = <<>>
    /\ Len(fetched["a"]) = 2
    /\ "a" \in PrintedNames

(***************************************************************************)
(* C10.  While no connect or query has failed, at most two connections are *)
(* open: the catalog connection, open from the database list query until   *)
(* the last database has been rendered, and at most one connection to a    *)
(* database, opened after the database before it has been rendered and     *)
(* closed before its own database is handed to the renderer.               *)
(***************************************************************************)
C10_AtMostTwoConnections ==
    failures = <<>> =>
        /\ Cardinality(open) <= 2
        /\ "postgres" \in open <=> pc \notin {"start", "done"}
        /\ \A c \in open \ {"postgres"} :
               /\ InFetchTables
               /\ c = data[i].name
               /\ Len(DatabasePositions) = i - 1
        /\ pc \in {"yield", "display"} => open = {"postgres"}
        /\ pc \in {"close", "done"} => Len(DatabasePositions) = Len(data)

C10_Witness ==
    /\ failures = <<>>
    /\ pc = "build"
    /\ i = 2
    /\ open = {"postgres", data[2].name}
    /\ Len(DatabasePositions) = 1

(***************************************************************************)
(* C9.  fetch_fields returns one Field for each row whose schema and table *)
(* both equal the key, in the order of the rows and with no description,   *)
(* and nothing for a row of another table or of another schema.            *)
(***************************************************************************)
Matching(arg) ==
    {k \in 1..Len(arg.rows) : /\ arg.rows[k].schema_name = arg.schema_name
                              /\ arg.rows[k].table_name = arg.table_name}

C9_FieldsOfKeyInOrder ==
    fout # None =>
        LET hits == Matching(fin)
            rank(k) == Cardinality({j \in hits : j <= k})
        IN  /\ Len(fout[1]) = Cardinality(hits)
            /\ \A k \in hits :
                   /\ fout[1][rank(k)].name = fin.rows[k].name
                   /\ fout[1][rank(k)].type = fin.rows[k].type
                   /\ fout[1][rank(k)].default = fin.rows[k].default
                   /\ fout[1][rank(k)].nullable = fin.rows[k].nullable
                   /\ fout[1][rank(k)].description = None

C9_Witness ==
    /\ fout # None
    /\ Len(fin.rows) = 3
    /\ Matching(fin) = {1, 3}
    /\ fin.rows[2].table_name = fin.table_name
    /\ fin.rows[2].schema_name # fin.schema_name
    /\ fin.rows[1].name # fin.rows[3].name
    /\ Len(fout[1]) = 2

(***************************************************************************)
(* C8.  human() names the largest unit whose threshold base^k the value    *)
(* reaches (the plain unit below the first threshold) and prints the value *)
(* over that threshold rounded to the nearest integer, a tie going to the  *)
(* even neighbour, followed by the unit; 0 is "0 bytes", 1536 "2 KiB",     *)
(* 1024^3 "1 GiB", 500 "500 rows", 1500 "2k rows", 1000000 "1kk rows".     *)
(***************************************************************************)
SizeUnits == <<"bytes", "KiB", "MiB", "GiB", "TiB">>
CountUnits == <<" rows", "k rows", "kk rows", "kkk rows">>

\* 1024^k as limbs
Threshold(k) ==
    CASE k = 0 -> Bytes(0, 1)
      [] k = 1 -> Bytes(0, 1024)
      [] k = 2 -> Bytes(1, 0)
      [] k = 3 -> Bytes(1024, 0)
      [] OTHER -> Bytes(Limb, 0)

Reaches(b, t) == b.hi > t.hi \/ (b.hi = t.hi /\ b.lo >= t.lo)

\* The sign of x * Limb - y for 0 <= y < 2 * Limb
SignLimbs(x, y) ==
    IF x >= 2 THEN 1
    ELSE IF x < 0 THEN -1
    ELSE IF x * Limb > y THEN 1 ELSE IF x * Limb = y THEN 0 ELSE -1

\* The sign of 2 * |v * 1024^k - b| - 1024^k: negative when v is the one
\* nearest integer to b / 1024^k, zero when v is one of the two nearest.
SizeGap(b, k, v) ==
    IF k <= 1
    THEN LET n == b.hi * Limb + b.lo
             d == 1024 ^ k
             e == IF v * d >= n THEN v * d - n ELSE n - v * d
         IN  2 * e - d
    ELSE LET hd == Threshold(k).hi
             dh == v * hd - b.hi    \* v * 1024^k - b = dh * Limb - b.lo
         IN  IF dh > hd \/ dh < 0 - hd THEN 1
             ELSE IF dh >= 1
             THEN SignLimbs(2 * dh - hd, 2 * b.lo)
             ELSE 0 - SignLimbs(hd + 2 * dh, 2 * b.lo)

\* The sign of 2 * |v * 1000^k - n| - 1000^k
CountGap(n, k, v) ==
    LET d == 1000 ^ k
        q == n \div d
        r == n % d
    IN  IF v = q THEN 2 * r - d
        ELSE IF v = q + 1 THEN d - 2 * r
        ELSE 1

Nearest(gap, v) == gap < 0 \/ (gap = 0 /\ v % 2 = 0)

HumanOfSize(b, text) ==
    \E k \in 0..4 :
        /\ k = 0 \/ Reaches(b, Threshold(k))
        /\ k = 4 \/ ~Reaches(b, Threshold(k + 1))
        /\ \E v \in 0..2047 :
               /\ Nearest(SizeGap(b, k, v), v)
               /\ text = ToString(v) \o " " \o SizeUnits[k + 1]

HumanOfCount(n, text) ==
    \E k \in 0..3 :
        /\ k = 0 \/ n >= 1000 ^ k
        /\ k = 3 \/ n < 1000 ^ (k + 1)
        /\ \E v \in 0..1000 :
               /\ Nearest(CountGap(n, k, v), v)
               /\ text = ToString(v) \o CountUnits[k + 1]

C8_HumanNearestInLargestUnit ==
    hout # None =>
        /\ hin.kind = "size" => HumanOfSize(hin.bytes, hout[1])
        /\ hin.kind = "count" => HumanOfCount(hin.count, hout[1])
        /\ hin.kind = "size" /\ hin.bytes = Bytes(0, 0) => hout[1] = "0 bytes"
        /\ hin.kind = "size" /\ hin.bytes = Bytes(0, 1536) => hout[1] = "2 KiB"
        /\ hin.kind = "size" /\ hin.bytes = Bytes(1024, 0) => hout[1] = "1 GiB"
        /\ hin.kind = "count" /\ hin.count = 500 => hout[1] = "500 rows"
        /\ hin.kind = "count" /\ hin.count = 1500 => hout[1] = "2k rows"
        /\ hin.kind = "count" /\ hin.count = 1000000 => hout[1] = "1kk rows"

C8_Witness ==
    /\ hin.kind = "size"
    /\ hin.bytes = Bytes(2 * Limb + Limb \div 2, 0)
    /\ hout = Some("2 TiB")

====
